---- MODULE Spec2Model ----
(***************************************************************************)
(* A model of aioweixin's WeixinPay client: the signer, the XML codec, the  *)
(* request pipeline `do`, the per-operation builders and sandbox            *)
(* initialisation.  Strings are TLA+ strings and are handled character by   *)
(* character (Len, SubSeq, \o), so canonical strings, XML documents and the *)
(* substring test of `do` are computed, not postulated.                     *)
(***************************************************************************)
EXTENDS Integers, Sequences, FiniteSets, TLC

VARIABLES
    mch_key,    \* WeixinPay._mch_key (a Python value)
    API_HOST,   \* the API_HOST attribute seen through self
    session,    \* Client._session: "None" or "open"
    pc,         \* "idle"; "awaiting" while a coroutine is suspended in post();
                \* "done" when the operation has returned or raised
    call,       \* the operation in progress or last completed, with its arguments
    data,       \* the dict handed to do(), as mutated in place by do()
    hashed,     \* what sign() last built: its argument and the string s
    content,    \* the response received by do(): declared content type and body
    result      \* how the last operation ended

vars == <<mch_key, API_HOST, session, pc, call, data, hashed, content, result>>

----------------------------------------------------------------------------
(* Python values.  A value is a record [t, s]: a str, an int (s its decimal *)
(* text), a bytes object, or None.                                          *)

PyStr(s) == [t |-> "str", s |-> s]
PyInt(s) == [t |-> "int", s |-> s]
PyBytes(s) == [t |-> "bytes", s |-> s]
None == [t |-> "none", s |-> ""]

\* "{0}".format(v), also str(v)
Format(v) ==
    CASE v.t = "bytes" -> "b'" \o v.s \o "'"
      [] v.t = "none" -> "None"
      [] OTHER -> v.s

\* Python truthiness of a value: None, "" and b"" are falsy, as is the int 0.
Truthy(v) ==
    CASE v.t = "none" -> FALSE
      [] v.t = "int" -> v.s # "0"
      [] OTHER -> v.s # ""

----------------------------------------------------------------------------
(* Character-level string helpers.                                          *)

\* F applied to the value of x: x is evaluated once, whatever F does with it.
With(x, F(_)) == CHOOSE r \in {F(v) : v \in {x}} : TRUE

\* The characters the model uses, in ascending code point order.
Alphabet ==
    " !#&'()+,-./0123456789:;<=>?@ABCDEFGHIJKLMNOPQRSTUVWXYZ[]_abcdefghijklmnopqrstuvwxyz"

Ord(c) == CHOOSE i \in 1..Len(Alphabet) : SubSeq(Alphabet, i, i) = c

\* The character of s at index i.
At(s, i) == SubSeq(s, i, i)

Min(S) == CHOOSE i \in S : \A j \in S : i <= j
Max(S) == CHOOSE i \in S : \A j \in S : i >= j

\* The least index in lo..hi satisfying P, or 0.
First(lo, hi, P(_)) ==
    With({i \in lo..hi : P(i)}, LAMBDA S : IF S = {} THEN 0 ELSE Min(S))

\* Python's str < str: lexicographic by code point, from index i on.
RECURSIVE StrLessFrom(_, _, _)
StrLessFrom(a, b, i) ==
    IF i > Len(b) THEN FALSE
    ELSE IF i > Len(a) THEN TRUE
    ELSE IF At(a, i) = At(b, i) THEN StrLessFrom(a, b, i + 1)
    ELSE Ord(At(a, i)) < Ord(At(b, i))
StrLess(a, b) == With(<<a, b>>, LAMBDA p : StrLessFrom(p[1], p[2], 1))

StartsWith(s, i, sub) ==
    /\ i + Len(sub) - 1 <= Len(s)
    /\ SubSeq(s, i, i + Len(sub) - 1) = sub

\* The first index >= i at which sub occurs in s, or 0.
FindV(s, sub, i) == First(i, Len(s) - Len(sub) + 1, LAMBDA j : StartsWith(s, j, sub))
Find(s, sub, i) == With(<<s, i>>, LAMBDA p : FindV(p[1], sub, p[2]))

\* Python's `sub in s`
Contains(s, sub) == Find(s, sub, 1) # 0

IsSpace(c) == c = " " \/ c = "\n"

\* str.strip()
StripV(s) ==
    With({i \in 1..Len(s) : ~IsSpace(At(s, i))},
         LAMBDA S : IF S = {} THEN "" ELSE SubSeq(s, Min(S), Max(S)))
Strip(s) == With(s, LAMBDA v : StripV(v))

----------------------------------------------------------------------------
(* A dict is a sequence of <<key, value>> pairs with distinct keys, in     *)
(* insertion order.                                                         *)

Keys(d) == With(d, LAMBDA m : {m[i][1] : i \in 1..Len(m)})
Has(d, k) == k \in Keys(d)
Get(d, k) == With(d, LAMBDA m : m[CHOOSE i \in 1..Len(m) : m[i][1] = k][2])
GetOr(d, k, dflt) == With(d, LAMBDA m : IF Has(m, k) THEN Get(m, k) ELSE dflt)
\* dict.setdefault(k, v)
SetDefault(d, k, v) == With(d, LAMBDA m : IF Has(m, k) THEN m ELSE Append(m, <<k, v>>))
\* d[k] = v
SetItem(d, k, v) ==
    With(d, LAMBDA m :
        IF Has(m, k) THEN [i \in 1..Len(m) |-> IF m[i][1] = k THEN <<k, v>> ELSE m[i]]
        ELSE Append(m, <<k, v>>))
\* `v and d.setdefault(k, v)`
SetDefaultIf(d, k, v) == IF Truthy(v) THEN SetDefault(d, k, v) ELSE d
\* the dict without key k
Without(d, k) == SelectSeq(d, LAMBDA kv : kv[1] # k)

----------------------------------------------------------------------------
(* The signer.                                                              *)

MD5 == "MD5"
HMAC_SHA256 == "HMAC-SHA256"
\* Something that is neither member of SignMethod, e.g. the bare string "MD5".
NO_METHOD == "NOT-A-SIGNMETHOD"

\* [(k, "{0}".format(v)) for k, v in data.items()]
Rendered(d) == With(d, LAMBDA m : [i \in 1..Len(m) |-> <<m[i][1], Format(m[i][2])>>])

\* The place list.sort(key=lambda x: x[0]) gives element j of l: behind every
\* element with a smaller key and, the sort being stable, every earlier
\* element with an equal key.
Place(l, j) ==
    1 + Cardinality({k \in 1..Len(l) :
            \/ StrLess(l[k][1], l[j][1])
            \/ l[k][1] = l[j][1] /\ k < j})

\* l with every element at its place; places pairs each place with the index
\* of the element that goes there.
SortedV(l, places) ==
    [i \in 1..Len(l) |-> l[(CHOOSE p \in places : p[1] = i)[2]]]
SortByKey(l) ==
    With(l, LAMBDA v : With({<<Place(v, j), j>> : j \in 1..Len(v)},
                            LAMBDA places : SortedV(v, places)))

\* the generator's filter `if kv[1]`
Filtered(l) == SelectSeq(l, LAMBDA kv : kv[2] # "")

\* "&".join("=".join(kv) for kv in l)
RECURSIVE JoinPairsV(_, _)
JoinPairsV(l, i) ==
    IF i > Len(l) THEN ""
    ELSE IF i = Len(l) THEN l[i][1] \o "=" \o l[i][2]
    ELSE l[i][1] \o "=" \o l[i][2] \o "&" \o JoinPairsV(l, i + 1)
JoinPairs(l) == With(l, LAMBDA v : JoinPairsV(v, 1))

\* sign() without its filter on empty values.
CanonicalStringUnfiltered(d, key) ==
    JoinPairs(SortByKey(Rendered(d))) \o "&key=" \o Format(key)

\* The string s that sign() encodes and hashes.
CanonicalString(d, key) ==
    JoinPairs(Filtered(SortByKey(Rendered(d)))) \o "&key=" \o Format(key)

\* Digests are kept symbolic: an injective term in the hashed message (and,
\* for HMAC, the key) stands for the uppercase hexadecimal digest.
Md5Hex(s) == "MD5(" \o s \o ")"
HmacSha256Hex(k, s) == "HMAC-SHA256(" \o k \o ";" \o s \o ")"

\* How an operation ends: it is still suspended, raises, or returns a str
\* (val), a dict (map) or the client itself.
Pending == [kind |-> "pending", exc |-> "", code |-> None, msg |-> None, val |-> None, map |-> <<>>]
Raised(exc, code, msg) ==
    [kind |-> "raise", exc |-> exc, code |-> code, msg |-> msg, val |-> None, map |-> <<>>]
Returned(v) == [kind |-> "str", exc |-> "", code |-> None, msg |-> None, val |-> v, map |-> <<>>]
ReturnedDict(d) == [kind |-> "dict", exc |-> "", code |-> None, msg |-> None, val |-> None, map |-> d]
ReturnedSelf == [kind |-> "self", exc |-> "", code |-> None, msg |-> None, val |-> None, map |-> <<>>]

\* WeixinPay.sign: hmac.new() accepts only bytes-like keys.
sign(d, method, key) ==
    IF method = MD5 THEN Returned(PyStr(Md5Hex(CanonicalString(d, key))))
    ELSE IF method = HMAC_SHA256 THEN
        IF key.t = "bytes"
        THEN Returned(PyStr(HmacSha256Hex(key.s, CanonicalString(d, key))))
        ELSE Raised("TypeError", None, PyStr("key: expected bytes or bytearray"))
    ELSE Raised("ValueError", None, PyStr("invalid sign method"))

----------------------------------------------------------------------------
(* The codec: util.to_xml and util.to_dict over xmltodict, on flat          *)
(* documents (one root, children holding text only, distinct child tags).   *)

XmlDecl == "<?xml version=\"1.0\" encoding=\"utf-8\"?>\n"

Entity(c) ==
    CASE c = "&" -> "&amp;"
      [] c = "<" -> "&lt;"
      [] c = ">" -> "&gt;"

\* xml.sax.saxutils.escape, applied by unparse to character data
RECURSIVE Escape(_)
EscapeV(s, i) ==
    IF i = 0 THEN s
    ELSE SubSeq(s, 1, i - 1) \o Entity(At(s, i)) \o Escape(SubSeq(s, i + 1, Len(s)))
Escape(s) ==
    With(s, LAMBDA v :
        EscapeV(v, First(1, Len(v), LAMBDA j : At(v, j) \in {"&", "<", ">"})))

\* One child element as unparse writes it: None and "" both leave the
\* element without character data.
Element(k, v) ==
    "<" \o k \o ">" \o (IF v.t = "none" THEN "" ELSE Escape(Format(v))) \o "</" \o k \o ">"

RECURSIVE ElementsV(_, _)
ElementsV(d, i) ==
    IF i > Len(d) THEN "" ELSE Element(d[i][1], d[i][2]) \o ElementsV(d, i + 1)
Elements(d) == With(d, LAMBDA m : ElementsV(m, 1))

\* util.to_xml: xmltodict.unparse(dict(xml=data))
to_xml(d) == XmlDecl \o "<xml>" \o Elements(d) \o "</xml>"

\* The entity starting at index i of s, or "".
EntityAt(s, i) ==
    IF StartsWith(s, i, "&amp;") THEN "&amp;"
    ELSE IF StartsWith(s, i, "&lt;") THEN "&lt;"
    ELSE IF StartsWith(s, i, "&gt;") THEN "&gt;"
    ELSE ""

Char(entity) ==
    CASE entity = "&amp;" -> "&"
      [] entity = "&lt;" -> "<"
      [] entity = "&gt;" -> ">"

\* Character data may hold "&" only where it starts an entity.
WellFormedText(s) ==
    With(s, LAMBDA v : \A i \in 1..Len(v) : At(v, i) = "&" => EntityAt(v, i) # "")

\* Well-formed character data as the parser reports it.
RECURSIVE Unescape(_)
UnescapeV(s, i) ==
    IF i = 0 THEN s
    ELSE SubSeq(s, 1, i - 1) \o Char(EntityAt(s, i))
             \o Unescape(SubSeq(s, i + Len(EntityAt(s, i)), Len(s)))
Unescape(s) == With(s, LAMBDA v : With(Find(v, "&", 1), LAMBDA i : UnescapeV(v, i)))

\* xmltodict's value for an element's character data (strip_whitespace): the
\* stripped text, or None when nothing is left.
CData(text) ==
    With(Strip(text), LAMBDA t : IF t = "" THEN None ELSE PyStr(Unescape(t)))

ParseError == [ok |-> FALSE, items |-> <<>>, text |-> ""]

\* The children of the root from index i on, up to the root's end tag.
\* items: the children parsed so far; text: the root's own character data.
\* ParseChild reads the element whose start tag spans lt..gt, ParseRun the
\* character data and the tag that follows it.
RECURSIVE ParseChildren(_, _, _, _, _)
ParseChild(s, root, items, text, gt, name, close) ==
    IF name = "" \/ close = 0 \/ ~StartsWith(s, close, "</" \o name \o ">") THEN ParseError
    ELSE IF ~WellFormedText(SubSeq(s, gt + 1, close - 1)) THEN ParseError
    ELSE ParseChildren(s, close + Len(name) + 3, root,
                       Append(items, <<name, CData(SubSeq(s, gt + 1, close - 1))>>), text)

ParseRun(s, i, root, items, text, lt, gt) ==
    IF lt = 0 \/ gt = 0 \/ ~WellFormedText(SubSeq(s, i, lt - 1)) THEN ParseError
    ELSE IF StartsWith(s, lt, "</") THEN
        IF SubSeq(s, lt + 2, gt - 1) = root /\ Strip(SubSeq(s, gt + 1, Len(s))) = ""
        THEN [ok |-> TRUE, items |-> items, text |-> text \o SubSeq(s, i, lt - 1)]
        ELSE ParseError
    ELSE With(Find(s, "<", gt + 1), LAMBDA close :
             ParseChild(s, root, items, text \o SubSeq(s, i, lt - 1), gt,
                        SubSeq(s, lt + 1, gt - 1), close))

ParseChildren(s, i, root, items, text) ==
    With(<<i, items, text, Find(s, "<", i)>>, LAMBDA a :
        With(IF a[4] = 0 THEN 0 ELSE Find(s, ">", a[4]), LAMBDA gt :
            ParseRun(s, a[1], root, a[2], a[3], a[4], gt)))

\* The document without its XML declaration and surrounding whitespace.
Prolog(s) ==
    IF ~StartsWith(s, 1, "<?") THEN Strip(s)
    ELSE With(Find(s, "?>", 1), LAMBDA e :
             IF e = 0 THEN "" ELSE Strip(SubSeq(s, e + 2, Len(s))))

\* xmltodict.parse on a flat document: [ok, items, text].
ParseV(body, gt) ==
    IF ~StartsWith(body, 1, "<") \/ gt = 0 \/ gt = 2 THEN ParseError
    ELSE ParseChildren(body, gt + 1, SubSeq(body, 2, gt - 1), <<>>, "")
Parse(s) == With(Prolog(s), LAMBDA body : With(Find(body, ">", 1), LAMBDA gt : ParseV(body, gt)))

\* util.to_dict: dict(data[k]) of the root's value, which xmltodict gives as
\* None for an empty root, as a str for a root holding only text, and as a
\* mapping otherwise (character data beside children goes under "#text").
FromParse(p) ==
    IF ~p.ok THEN Raised("ExpatError", None, PyStr("not well-formed"))
    ELSE IF p.items = <<>> THEN
        IF Strip(p.text) = ""
        THEN Raised("TypeError", None, PyStr("'NoneType' object is not iterable"))
        ELSE Raised("ValueError", None, PyStr("dictionary update sequence element"))
    ELSE IF Strip(p.text) = "" THEN ReturnedDict(p.items)
    ELSE ReturnedDict(Append(p.items, <<"#text", CData(p.text)>>))
to_dict(s) == With(Parse(s), LAMBDA p : FromParse(p))

----------------------------------------------------------------------------
(* The client and the request pipeline.                                     *)

ProdHost == "https://api.mch.weixin.qq.com"
APP_ID == "wxapp1"
MCH_ID == "mch1"
NOTIFY_URL == "https://merchant.example/notify"
\* Status.FAIL.value
FAIL == PyStr("FAIL")

\* the length the nonce_str property asks rand_str for
NonceLen == 32

\* The model's stand-ins for random.choice: the tokens rand_str may return.
NoncePool ==
    { "A1b2C3d4E5f6G7h8I9j0K1l2M3n4O5p6",
      "zY9xW8vU7tS6rQ5pO4nM3lK2jI1hG0fE",
      "short" }

\* util.rand_str(length)
rand_str(length) == {n \in NoncePool : Len(n) = length}

NoCall ==
    [op |-> "none", method |-> MD5, args |-> <<>>, url |-> "", posted |-> FALSE,
     wire |-> "", pre |-> [key |-> None, host |-> "", session |-> "None"]]
NoHash == [called |-> FALSE, arg |-> <<>>, method |-> MD5, key |-> None, s |-> "", out |-> Pending]
NoContent == [received |-> FALSE, ctype |-> "", body |-> ""]

\* What one call of sign() leaves behind: its argument, the string it built
\* and what it returned or raised.
Hashing(d, method, key) ==
    [called |-> TRUE, arg |-> d, method |-> method, key |-> key,
     s |-> CanonicalString(d, key), out |-> sign(d, method, key)]

\* do(), lines 148-151: the defaults filled into the caller's dict, in the
\* order the code fills them.  A raise inside sign() leaves what was filled
\* before it.
WithNonce(d, nonce) == SetDefault(d, "nonce_str", PyStr(nonce))
WithSign(d, sg) == SetDefault(d, "sign", sg)
WithSignType(d, method) ==
    IF method # MD5 THEN SetDefault(d, "sign_type", PyStr(method)) ELSE d

Filled(d, method, key, nonce) ==
    LET d1 == WithNonce(d, nonce)
        sg == sign(d1, method, key)
    IN IF sg.kind = "raise" THEN d1
       ELSE WithSignType(WithSign(d1, sg.val), method)

\* The first half of do(), up to the suspension in session.post(): used by
\* every operation that reaches do().
Send(op, args, url, d, method) ==
    \E nonce \in rand_str(NonceLen) :
        LET d1 == WithNonce(d, nonce)
            sg == sign(d1, method, mch_key)
            env == Filled(d, method, mch_key, nonce)
            pre == [key |-> mch_key, host |-> API_HOST, session |-> session]
        IN
        /\ hashed' = Hashing(d1, method, mch_key)
        /\ data' = env
        /\ content' = NoContent
        /\ UNCHANGED mch_key
        /\ IF sg.kind = "raise"
           THEN /\ pc' = "done"
                /\ result' = sg
                /\ session' = session
                /\ call' = [op |-> op, method |-> method, args |-> args, url |-> url,
                            posted |-> FALSE, wire |-> "", pre |-> pre]
           ELSE /\ pc' = "awaiting"
                /\ result' = Pending
                /\ session' = "open"
                /\ call' = [op |-> op, method |-> method, args |-> args, url |-> url,
                            posted |-> TRUE, wire |-> to_xml(env), pre |-> pre]

\* An operation that raises before it reaches do().
Reject(op, args, msg) ==
    /\ pc' = "done"
    /\ result' = Raised("WeixinError", FAIL, PyStr(msg))
    /\ call' = [op |-> op, method |-> MD5, args |-> args, url |-> "", posted |-> FALSE,
                wire |-> "", pre |-> [key |-> mch_key, host |-> API_HOST, session |-> session]]
    /\ data' = <<>>
    /\ hashed' = NoHash
    /\ content' = NoContent
    /\ UNCHANGED <<mch_key, API_HOST, session>>

\* do() selecting raw passthrough by the declared content type.
IsRawByContentType(ctype, body) == ~Contains(ctype, "xml")

\* do(), line 156: the test that selects raw passthrough.
IsRaw(ctype, body) == ~Contains(body, "xml")

\* do(), lines 159-163: the classification of a decoded response.
Classify(d) ==
    IF ~Has(d, "return_code") THEN Raised("KeyError", None, PyStr("return_code"))
    ELSE IF Get(d, "return_code") = FAIL
        THEN Raised("WeixinError", Get(d, "return_code"),
                    GetOr(d, "return_msg", GetOr(d, "retmsg", PyStr(""))))
    ELSE IF GetOr(d, "result_code", PyStr("")) = FAIL
        THEN IF Has(d, "err_code_des")
             THEN Raised("WeixinError", Get(d, "result_code"), Get(d, "err_code_des"))
             ELSE Raised("KeyError", None, PyStr("err_code_des"))
    ELSE ReturnedDict(d)

\* The second half of do(), lines 154-163, on the response received.
Receive(ctype, body) ==
    IF IsRaw(ctype, body) THEN Returned(PyStr(body))
    ELSE LET t == to_dict(body) IN
         IF t.kind = "raise" THEN t ELSE Classify(t.map)

\* resp[k] on what do() returned: a dict, or the raw str.
Subscript(resp, k) ==
    IF resp.kind = "str" THEN Raised("TypeError", None, PyStr("string indices must be integers"))
    ELSE IF ~Has(resp.map, k) THEN Raised("KeyError", None, PyStr(k))
    ELSE Returned(Get(resp.map, k))

----------------------------------------------------------------------------
(* Inputs.                                                                  *)

\* How many times sanbox() is called on the client.
MaxSandbox == 2

Methods == {MD5, HMAC_SHA256}

Opt(x) == {None, PyStr(x)}

\* Parameter maps handed to sign() and do() directly.
ParamMaps ==
    { <<>>,
      << <<"b", PyStr("2")>>, <<"a", PyStr("1")>> >>,
      << <<"a", PyStr("1")>>, <<"b", PyStr("2")>> >>,
      << <<"b", PyStr("2")>>, <<"attach", PyStr("")>>, <<"a", PyStr("1")>> >>,
      << <<"attach", PyStr("")>> >>,
      << <<"total_fee", PyInt("100")>>, <<"out_trade_no", PyStr("123")>>,
         <<"Body", PyStr("tea")>> >>,
      << <<"a", PyStr("1")>>, <<"sign", PyStr("CALLERSIGN")>> >>,
      << <<"nonce_str", PyStr("mynonce")>>, <<"a", PyStr("1")>>,
         <<"sign_type", PyStr("MD5")>> >>,
      << <<"sign_type", PyStr("HMAC-SHA256")>>, <<"sign", PyStr("CALLERSIGN")>>,
         <<"nonce_str", PyStr("")>> >> }

\* Maps handed to the codec.
CodecMaps ==
    ParamMaps \cup
    { << <<"out_trade_no", PyStr("123")>>, <<"total_fee", PyStr("100")>> >>,
      << <<"body", PyStr("tea & <milk>")>>, <<"fee", PyInt("7")>> >> }

ContentTypes == {"text/xml", "text/plain"}

Bodies ==
    { "<xml><return_code>SUCCESS</return_code><result_code>SUCCESS</result_code><prepay_id>wx20</prepay_id></xml>",
      "<xml><return_code>SUCCESS</return_code><sandbox_signkey>sbkey1</sandbox_signkey></xml>",
      "<xml><return_code>SUCCESS</return_code><sandbox_signkey>sbkey2</sandbox_signkey></xml>",
      "<xml><return_code>FAIL</return_code><return_msg>signature error</return_msg></xml>",
      "<xml><return_code>FAIL</return_code><retmsg>busy</retmsg><result_code>FAIL</result_code><err_code_des>X</err_code_des></xml>",
      "<xml><return_code>FAIL</return_code></xml>",
      "<xml><return_code>SUCCESS</return_code><result_code>FAIL</result_code><err_code_des>ORDERPAID</err_code_des></xml>",
      "<xml><return_code>SUCCESS</return_code><result_code>FAIL</result_code></xml>",
      "<xml><result_code>SUCCESS</result_code></xml>",
      "<xml></xml>",
      "<root><return_code>FAIL</return_code><return_msg>no</return_msg></root>",
      "date,fee\n20200101,100",
      "date,goods\n20200101,xml book" }

TimeStamps == {"1580000000"}

----------------------------------------------------------------------------
(* The operations.                                                          *)

Init ==
    /\ mch_key \in {PyStr("key123"), PyBytes("key123")}
    /\ API_HOST = ProdHost
    /\ session = "None"
    /\ pc = "idle"
    /\ call = NoCall
    /\ data = <<>>
    /\ hashed = NoHash
    /\ content = NoContent
    /\ result = Pending

\* A direct call of sign(data, method).
SignCall ==
    /\ pc = "idle"
    /\ \E m \in ParamMaps, method \in Methods \cup {NO_METHOD} :
        /\ hashed' = Hashing(m, method, mch_key)
        /\ result' = sign(m, method, mch_key)
        /\ call' = [NoCall EXCEPT !.op = "sign", !.method = method, !.args = m,
                                  !.pre = [key |-> mch_key, host |-> API_HOST, session |-> session]]
        /\ data' = m
    /\ content' = NoContent
    /\ pc' = "done"
    /\ UNCHANGED <<mch_key, API_HOST, session>>

\* A direct call of do(url, data, method=method).
DoCall ==
    /\ pc = "idle"
    /\ \E m \in ParamMaps, method \in Methods :
        Send("do", m, API_HOST \o "/pay/micropay", m, method)
    /\ UNCHANGED API_HOST

\* The maps unified_order builds, lines 220-238.
UnifiedOrderArgs(trade_type, openid, product_id) ==
    << <<"out_trade_no", PyStr("T1")>>, <<"trade_type", PyStr(trade_type)>>,
       <<"total_fee", PyInt("100")>>, <<"body", PyStr("tea")>>,
       <<"spbill_create_ip", PyStr("10.0.0.1")>>,
       <<"openid", openid>>, <<"product_id", product_id>> >>

UnifiedOrderBody(op, a) ==
    LET k1 == SetDefault(SetDefault(SetDefault(SetDefault(SetDefault(<<>>,
                  "out_trade_no", Get(a, "out_trade_no")),
                  "trade_type", Get(a, "trade_type")),
                  "total_fee", Get(a, "total_fee")),
                  "body", Get(a, "body")),
                  "spbill_create_ip", Get(a, "spbill_create_ip"))
        tt == Get(a, "trade_type").s
        k2 == IF tt = "JSAPI" THEN SetDefault(k1, "openid", Get(a, "openid"))
              ELSE IF tt = "NATIVE" THEN SetDefault(k1, "product_id", Get(a, "product_id"))
              ELSE k1
        k3 == SetDefault(SetDefault(SetDefault(k2,
                  "appid", PyStr(APP_ID)), "mch_id", PyStr(MCH_ID)),
                  "notify_url", PyStr(NOTIFY_URL))
    IN
    IF tt = "JSAPI" /\ ~Truthy(Get(a, "openid")) THEN Reject(op, a, "openid required")
    ELSE IF tt = "NATIVE" /\ ~Truthy(Get(a, "product_id"))
        THEN Reject(op, a, "product_id required")
    ELSE Send(op, a, API_HOST \o "/pay/unifiedorder", k3, MD5) /\ UNCHANGED API_HOST

unified_order ==
    /\ pc = "idle"
    /\ \E trade_type \in {"APP", "JSAPI", "NATIVE"},
          openid \in {None, PyStr(""), PyStr("o1")}, product_id \in Opt("p1") :
        UnifiedOrderBody("unified_order", UnifiedOrderArgs(trade_type, openid, product_id))

\* jsapi up to its await of unified_order, lines 266-274.
jsapi ==
    /\ pc = "idle"
    /\ \E openid \in {PyStr(""), PyStr("o1")} :
        UnifiedOrderBody("jsapi", UnifiedOrderArgs("JSAPI", openid, None))

order_query ==
    /\ pc = "idle"
    /\ \E out_trade_no \in Opt("T1"), transaction_id \in Opt("W1") :
        LET a == << <<"out_trade_no", out_trade_no>>, <<"transaction_id", transaction_id>> >>
            k == SetDefault(SetDefault(
                     SetDefaultIf(SetDefaultIf(<<>>, "out_trade_no", out_trade_no),
                                  "transaction_id", transaction_id),
                     "appid", PyStr(APP_ID)), "mch_id", PyStr(MCH_ID))
        IN IF ~Truthy(out_trade_no) /\ ~Truthy(transaction_id)
           THEN Reject("order_query", a, "out_trade_no or transaction_id required")
           ELSE Send("order_query", a, API_HOST \o "/pay/orderquery", k, MD5)
                /\ UNCHANGED API_HOST

close_order ==
    /\ pc = "idle"
    /\ LET a == << <<"out_trade_no", PyStr("T1")>> >>
           k == SetDefault(SetDefault(SetDefault(<<>>, "out_trade_no", PyStr("T1")),
                    "appid", PyStr(APP_ID)), "mch_id", PyStr(MCH_ID))
       IN Send("close_order", a, API_HOST \o "/pay/closeorder", k, MD5)
    /\ UNCHANGED API_HOST

refund ==
    /\ pc = "idle"
    /\ \E out_trade_no \in Opt("T1"), transaction_id \in Opt("W1") :
        LET a == << <<"out_refund_no", PyStr("RF1")>>, <<"total_fee", PyInt("100")>>,
                    <<"refund_fee", PyInt("40")>>, <<"out_trade_no", out_trade_no>>,
                    <<"transaction_id", transaction_id>> >>
            k1 == SetDefault(SetDefault(SetDefault(<<>>,
                      "out_refund_no", Get(a, "out_refund_no")),
                      "total_fee", Get(a, "total_fee")),
                      "refund_fee", Get(a, "refund_fee"))
            k2 == SetDefaultIf(SetDefaultIf(k1, "out_trade_no", out_trade_no),
                               "transaction_id", transaction_id)
            k3 == SetDefault(SetDefault(SetDefault(k2,
                      "notify_url", PyStr(NOTIFY_URL)),
                      "appid", PyStr(APP_ID)), "mch_id", PyStr(MCH_ID))
        IN Send("refund", a, API_HOST \o "/pay/refund", k3, MD5)
    /\ UNCHANGED API_HOST

refund_query ==
    /\ pc = "idle"
    /\ \E refund_id \in Opt("R9"), out_refund_no \in Opt("RF1"),
          out_trade_no \in {None, PyStr("")}, transaction_id \in {None} :
        LET a == << <<"refund_id", refund_id>>, <<"out_refund_no", out_refund_no>>,
                    <<"out_trade_no", out_trade_no>>, <<"transaction_id", transaction_id>> >>
            k1 == SetDefaultIf(SetDefaultIf(SetDefaultIf(SetDefaultIf(<<>>,
                      "out_trade_no", out_trade_no), "transaction_id", transaction_id),
                      "refund_id", refund_id), "out_refund_no", out_refund_no)
            k2 == SetDefault(SetDefault(k1, "appid", PyStr(APP_ID)), "mch_id", PyStr(MCH_ID))
        IN IF k1 = <<>>
           THEN Reject("refund_query", a, "invalid argument")
           ELSE Send("refund_query", a, API_HOST \o "/pay/refundquery", k2, MD5)
                /\ UNCHANGED API_HOST

download_bill ==
    /\ pc = "idle"
    /\ \E tar_type \in Opt("GZIP") :
        LET a == << <<"bill_date", PyStr("20200101")>>, <<"bill_type", PyStr("ALL")>>,
                    <<"tar_type", tar_type>> >>
            k == SetDefault(SetDefault(
                     SetDefaultIf(SetDefault(SetDefault(<<>>,
                         "bill_date", Get(a, "bill_date")), "bill_type", Get(a, "bill_type")),
                         "tar_type", tar_type),
                     "appid", PyStr(APP_ID)), "mch_id", PyStr(MCH_ID))
        IN Send("download_bill", a, API_HOST \o "/pay/downloadbill", k, MD5)
    /\ UNCHANGED API_HOST

download_fund_flow ==
    /\ pc = "idle"
    /\ \E tar_type \in Opt("GZIP") :
        LET a == << <<"bill_date", PyStr("20200101")>>, <<"account_type", PyStr("Basic")>>,
                    <<"tar_type", tar_type>> >>
            k == SetDefault(SetDefault(
                     SetDefaultIf(SetDefault(SetDefault(<<>>,
                         "bill_date", Get(a, "bill_date")),
                         "account_type", Get(a, "account_type")),
                         "tar_type", tar_type),
                     "appid", PyStr(APP_ID)), "mch_id", PyStr(MCH_ID))
        IN Send("download_fund_flow", a, API_HOST \o "/pay/downloadfundflow", k, HMAC_SHA256)
    /\ UNCHANGED API_HOST

\* The number of "/sandboxnew" suffixes API_HOST carries.
SandboxDepth(host) == (Len(host) - Len(ProdHost)) \div Len("/sandboxnew")

\* sanbox up to its await of do(), lines 184-187.
sanbox ==
    /\ pc = "idle"
    /\ SandboxDepth(API_HOST) < MaxSandbox
    /\ API_HOST' = API_HOST \o "/sandboxnew"
    /\ Send("sanbox", <<>>, API_HOST' \o "/pay/getsignkey",
            << <<"mch_id", PyStr(MCH_ID)>> >>, MD5)

\* What jsapi does with unified_order's result, lines 275-280.
JsapiResult(resp, nonce, timestamp, key) ==
    LET pid == Subscript(resp, "prepay_id") IN
    IF pid.kind = "raise" THEN [out |-> pid, h |-> NoHash]
    ELSE LET raw == << <<"appId", PyStr(APP_ID)>>, <<"timeStamp", PyStr(timestamp)>>,
                       <<"nonceStr", PyStr(nonce)>>,
                       <<"package", PyStr("prepay_id=" \o Format(pid.val))>>,
                       <<"signType", PyStr(MD5)>> >>
             sg == sign(raw, MD5, key)
         IN [out |-> IF sg.kind = "raise" THEN sg ELSE ReturnedDict(SetItem(raw, "sign", sg.val)),
             h |-> Hashing(raw, MD5, key)]

\* Receive on every response the model draws, evaluated once.
Received == [ctype \in ContentTypes |-> [body \in Bodies |-> Receive(ctype, body)]]

\* The response arrives at an operation that returns what do() returns:
\* the rest of do().
Respond ==
    /\ pc = "awaiting"
    /\ call.op \notin {"sanbox", "jsapi"}
    /\ \E ctype \in ContentTypes, body \in Bodies :
        /\ content' = [received |-> TRUE, ctype |-> ctype, body |-> body]
        /\ result' = Received[ctype][body]
    /\ pc' = "done"
    /\ UNCHANGED <<mch_key, API_HOST, session, call, data, hashed>>

\* The response to getsignkey arrives: the rest of do(), then sanbox lines
\* 188-189.
SanboxRespond ==
    /\ pc = "awaiting"
    /\ call.op = "sanbox"
    /\ \E ctype \in ContentTypes, body \in Bodies :
        LET resp == Received[ctype][body]
            key == Subscript(resp, "sandbox_signkey")
        IN
        /\ content' = [received |-> TRUE, ctype |-> ctype, body |-> body]
        /\ IF resp.kind = "raise" THEN result' = resp /\ UNCHANGED mch_key
           ELSE IF key.kind = "raise" THEN result' = key /\ UNCHANGED mch_key
           ELSE result' = ReturnedSelf /\ mch_key' = key.val
    /\ pc' = "done"
    /\ UNCHANGED <<API_HOST, session, call, data, hashed>>

\* The response to jsapi's unified_order arrives: the rest of do(), then
\* jsapi lines 275-280.
JsapiRespond ==
    /\ pc = "awaiting"
    /\ call.op = "jsapi"
    /\ \E ctype \in ContentTypes, body \in Bodies, nonce \in rand_str(NonceLen),
          timestamp \in TimeStamps :
        LET resp == Received[ctype][body]
            js == JsapiResult(resp, nonce, timestamp, mch_key)
        IN
        /\ content' = [received |-> TRUE, ctype |-> ctype, body |-> body]
        /\ IF resp.kind = "raise" THEN result' = resp /\ UNCHANGED hashed
           ELSE /\ result' = js.out
                /\ hashed' = IF js.h.called THEN js.h ELSE hashed
    /\ pc' = "done"
    /\ UNCHANGED <<mch_key, API_HOST, session, call, data>>

\* session.post() fails, or the caller's timeout cancels the await.
TransportFail ==
    /\ pc = "awaiting"
    /\ \E exc \in {"ClientError", "TimeoutError"} :
        result' = Raised(exc, None, PyStr(""))
    /\ pc' = "done"
    /\ UNCHANGED <<mch_key, API_HOST, session, call, data, hashed, content>>

\* to_dict(to_xml(m)): the codec on its own.
Codec ==
    /\ pc = "idle"
    /\ \E m \in CodecMaps :
        /\ call' = [NoCall EXCEPT !.op = "codec", !.args = m, !.wire = to_xml(m),
                                  !.pre = [key |-> mch_key, host |-> API_HOST, session |-> session]]
        /\ result' = to_dict(to_xml(m))
        /\ data' = m
    /\ hashed' = NoHash
    /\ content' = NoContent
    /\ pc' = "done"
    /\ UNCHANGED <<mch_key, API_HOST, session>>

\* The caller has the finished operation's outcome and goes on.
Continue ==
    /\ pc = "done"
    /\ pc' = "idle"
    /\ call' = NoCall
    /\ data' = <<>>
    /\ hashed' = NoHash
    /\ content' = NoContent
    /\ result' = Pending
    /\ UNCHANGED <<mch_key, API_HOST, session>>

\* Client.close
close ==
    /\ pc = "idle"
    /\ session = "open"
    /\ session' = "None"
    /\ UNCHANGED <<mch_key, API_HOST, pc, call, data, hashed, content, result>>

Next ==
    \/ SignCall
    \/ DoCall
    \/ unified_order
    \/ jsapi
    \/ order_query
    \/ close_order
    \/ refund
    \/ refund_query
    \/ download_bill
    \/ download_fund_flow
    \/ sanbox
    \/ Respond
    \/ SanboxRespond
    \/ JsapiRespond
    \/ TransportFail
    \/ Codec
    \/ Continue
    \/ close

Spec == Init /\ [][Next]_vars

----------------------------------------------------------------------------
(* Properties.                                                              *)

\* to_dict on every body the model draws, evaluated once.
Decoded == [body \in Bodies |-> to_dict(body)]

\* The operations that return what do() returns.
PlainOps ==
    {"do", "unified_order", "order_query", "close_order", "refund", "refund_query",
     "download_bill", "download_fund_flow"}

\* The entries of a map that take part in signing, as a set: no order.
C1_Entries(m) ==
    {e \in {<<m[i][1], Format(m[i][2])>> : i \in 1..Len(m)} : e[2] # ""}

\* The entries of S written key=value in ascending key order, joined by "&".
RECURSIVE C1_Join(_)
C1_Join(S) ==
    IF S = {} THEN ""
    ELSE With(CHOOSE x \in S : \A y \in S \ {x} : StrLess(x[1], y[1]), LAMBDA e :
             e[1] \o "=" \o e[2] \o (IF S = {e} THEN "" ELSE "&" \o C1_Join(S \ {e})))

C1_Reverse(m) == [i \in 1..Len(m) |-> m[Len(m) + 1 - i]]

\* C1: whenever sign() runs on a map with at least one non-empty value under
\* a text secret s, the string it hashes is the map's non-empty entries in
\* ascending key order, key=value joined by "&", followed by "&key=" and s;
\* it is the same for the map in another insertion order and for the map
\* with an empty-valued entry added or with its empty-valued entries removed.
C1_CanonicalSigningString ==
    (hashed.called /\ hashed.key.t = "str" /\ C1_Entries(hashed.arg) # {}) =>
        \* a response leaves what sign() did as it was, except in jsapi, which
        \* signs again once the response is in
        (content.received /\ call.op # "jsapi") \/
        /\ hashed.s = C1_Join(C1_Entries(hashed.arg)) \o "&key=" \o hashed.key.s
        /\ CanonicalString(C1_Reverse(hashed.arg), hashed.key) = hashed.s
        /\ CanonicalString(SelectSeq(hashed.arg, LAMBDA kv : Format(kv[2]) # ""),
                           hashed.key) = hashed.s
        /\ CanonicalString(<<<<"device_info", PyStr("")>>>> \o hashed.arg, hashed.key)
               = hashed.s
        /\ (C1_Entries(hashed.arg) = {<<"a", "1">>, <<"b", "2">>} /\ hashed.key.s = "key123")
               => hashed.s = "a=1&b=2&key=key123"

C1_Witness ==
    /\ pc = "done"
    /\ call.op = "sign"
    /\ hashed.arg = << <<"b", PyStr("2")>>, <<"attach", PyStr("")>>, <<"a", PyStr("1")>> >>
    /\ hashed.key = PyStr("key123")
    /\ hashed.s = "a=1&b=2&key=key123"

\* C2: an entry with key "sign" is never part of the string sign() hashes:
\* the string is the one built from the map without its "sign" entry.
C2_SignFieldNeverHashed ==
    hashed.called =>
        hashed.s = CanonicalString(Without(hashed.arg, "sign"), hashed.key)

\* C3: with a text secret sign() returns a signature under MD5 and under
\* HMAC_SHA256 and fails only for a method that is neither; download_fund_flow
\* on such a client reaches its POST.
C3_SignReturnsForTextSecret ==
    /\ (hashed.called /\ hashed.key.t = "str") =>
           (hashed.out.kind = "str" <=> hashed.method \in Methods)
    /\ (call.op = "download_fund_flow" /\ call.pre.key.t = "str") => call.posted

\* C4: once do() has run its default filling, the caller's map holds every
\* entry it held before, unchanged, and in addition exactly: nonce_str (a
\* 32-character nonce) if it was absent, sign (the signer's result for the
\* method) if it was absent, and sign_type (the method's wire name) if it was
\* absent and the method is not MD5.
C4_DoFillsDefaults ==
    (call.op = "do" /\ pc \in {"awaiting", "done"}) =>
        /\ \A k \in Keys(call.args) : Has(data, k) /\ Get(data, k) = Get(call.args, k)
        /\ Keys(data) = Keys(call.args) \cup {"nonce_str", "sign"}
                            \cup (IF call.method # MD5 THEN {"sign_type"} ELSE {})
        /\ ~Has(call.args, "nonce_str") => Len(Get(data, "nonce_str").s) = NonceLen
        /\ ~Has(call.args, "sign") =>
               hashed.out.kind = "str" /\ Get(data, "sign") = hashed.out.val
        /\ (~Has(call.args, "sign_type") /\ call.method # MD5) =>
               Get(data, "sign_type") = PyStr(call.method)

\* C5: a decoded response is classified in two tiers and nothing else
\* happens: return_code = FAIL raises WeixinError(return_code, return_msg or
\* else retmsg); otherwise result_code present and = FAIL raises
\* WeixinError(result_code, err_code_des); otherwise the map is returned.
C5_TwoTierClassification ==
    (pc = "done" /\ content.received /\ call.op \in PlainOps
        /\ Contains(content.body, "xml") /\ Decoded[content.body].kind = "dict") =>
        LET d == Decoded[content.body].map IN
        IF Has(d, "return_code") /\ Get(d, "return_code") = FAIL THEN
            /\ result.kind = "raise" /\ result.exc = "WeixinError" /\ result.code = FAIL
            /\ Has(d, "return_msg") => result.msg = Get(d, "return_msg")
            /\ (~Has(d, "return_msg") /\ Has(d, "retmsg")) => result.msg = Get(d, "retmsg")
        ELSE IF Has(d, "result_code") /\ Get(d, "result_code") = FAIL THEN
            /\ result.kind = "raise" /\ result.exc = "WeixinError" /\ result.code = FAIL
            /\ Has(d, "err_code_des") => result.msg = Get(d, "err_code_des")
        ELSE result.kind = "dict" /\ result.map = d

C7_CodecRoundTrip ==
    (pc = "done" /\ call.op = "codec") =>
        /\ result.kind = "dict"
        /\ result.map = [i \in 1..Len(call.args) |->
                            <<call.args[i][1], PyStr(Format(call.args[i][2]))>>]

\* The arguments of the call violate the operation's precondition.
C8_Violates ==
    \/ /\ call.op \in {"unified_order", "jsapi"}
       /\ \/ Get(call.args, "trade_type") = PyStr("JSAPI") /\ ~Truthy(Get(call.args, "openid"))
          \/ Get(call.args, "trade_type") = PyStr("NATIVE")
                 /\ ~Truthy(Get(call.args, "product_id"))
    \/ /\ call.op \in {"order_query", "refund"}
       /\ ~Truthy(Get(call.args, "out_trade_no"))
       /\ ~Truthy(Get(call.args, "transaction_id"))
    \/ /\ call.op = "refund_query"
       /\ \A i \in 1..Len(call.args) : ~Truthy(call.args[i][2])

\* C8: an operation whose arguments violate its precondition raises
\* WeixinError without a POST and leaves secret, host and session unchanged.
C8_ValidationBeforeNetwork ==
    (pc \in {"awaiting", "done"} /\ C8_Violates) =>
        /\ ~call.posted
        /\ result.kind = "raise" /\ result.exc = "WeixinError"
        /\ mch_key = call.pre.key
        /\ API_HOST = call.pre.host
        /\ session = call.pre.session

\* C9: a sanbox call that fails by transport failure, timeout or a business
\* error leaves the stored secret and the API host as they were before it.
C9_FailedSandboxLeavesNoMutation ==
    (pc = "done" /\ call.op = "sanbox" /\ result.kind = "raise"
        /\ result.exc \in {"ClientError", "TimeoutError", "WeixinError"}) =>
        /\ mch_key = call.pre.key
        /\ API_HOST = call.pre.host

\* C10: in every request do() sends for a caller that supplied no sign, the
\* sign field is the signer's signature, under the request's method, of all
\* the other fields of the envelope sent.
C10_SignCoversEnvelope ==
    (call.posted /\ call.op \in PlainOps \cup {"sanbox", "jsapi"}
        /\ ~(call.op = "do" /\ Has(call.args, "sign"))) =>
        /\ Has(data, "sign")
        /\ Get(data, "sign") = sign(Without(data, "sign"), call.method, call.pre.key).val

\* The secrets the gateway hands out for the sandbox: the client's secret is
\* one of them exactly when a sanbox call has succeeded on it.
C11_SandboxKeys == {PyStr("sbkey1"), PyStr("sbkey2")}

\* C11: a successful sanbox call leaves the client with the sandbox_signkey of
\* its response as its secret and with the production host followed by
\* "/sandboxnew" exactly once; every later operation of a client on which
\* sanbox has succeeded posts to that host, signs with the stored secret and
\* leaves secret and host as they are.
C11_SandboxHostOnceAndLatestKey ==
    /\ (pc = "done" /\ call.op = "sanbox" /\ result = ReturnedSelf) =>
           /\ mch_key = Get(Decoded[content.body].map, "sandbox_signkey")
           /\ API_HOST = ProdHost \o "/sandboxnew"
    /\ (call.op \in PlainOps \cup {"jsapi"} /\ call.pre.key \in C11_SandboxKeys) =>
           /\ call.posted => StartsWith(call.url, 1, ProdHost \o "/sandboxnew/pay/")
           /\ hashed.called => hashed.key = call.pre.key
           /\ mch_key = call.pre.key
           /\ API_HOST = call.pre.host

====
